---- MODULE Spec2Model ----
(***************************************************************************)
(* The application rolling-upgrade operator of                             *)
(* src/01-beginner/configmap-syncer/README.md (lines 592-829): one         *)
(* ManagedApplication, its migration Jobs, its workload and traffic split, *)
(* and the Reconciler that drives the upgrade phases.                      *)
(*                                                                         *)
(* Reconcile, runMigration and deployCanary are translated from the Go     *)
(* code of the README.  startUpgrade, deployNewVersion,                    *)
(* performHealthCheck, rollback, getCurrentCanaryStep, promoteCanary and   *)
(* updateTrafficWeight are called by that code but defined nowhere in the  *)
(* repository: they are modelled from spec.md (sections 4.1 to 4.5).       *)
(*                                                                         *)
(* Two specifications share the state:                                     *)
(*   Spec    the Reconciler as the code dispatches it (five phase cases);  *)
(*   SpecSM  the state machine of spec.md 4.1 (eight phases) driving the   *)
(*           same handlers, which is the only way deployCanary is run.     *)
(***************************************************************************)
EXTENDS Integers, Sequences, FiniteSets, TLC

\* ------------------------------------------------------------------ bounds

\* Disturbances in one behaviour: user edits of spec.version and spec.paused,
\* failing API calls, and changes of the new version's health.
MaxDisturbances == 2
\* HealthCheckSpec thresholds (configuration, chosen here).
SuccessThreshold == 1
FailureThreshold == 2

\* --------------------------------------------------------------- constants

\* RequeueAfter of runMigration, in seconds.
MigrationPollSeconds == 10
\* RequeueAfter while the health gate is pending (periodSeconds of the example).
PeriodSeconds == 10

Versions == {"v1", "v2", "v3"}

\* Status.Phase: "" is the zero value of a new resource (Idle).
Phases == {"", "Migrating", "Deploying", "HealthChecking", "Canary",
           "Promoting", "Healthy", "Failed", "RollingBack"}

NoCanary == <<[weight |-> 0, pause |-> 0]>>

Step(w, p) == [weight |-> w, pause |-> p]

\* The canary step lists a behaviour may be configured with: none, empty,
\* the three steps of the README, equal consecutive weights, a decreasing
\* list, and a list that does not end at 100.
ReadmeSteps == <<Step(10, 60), Step(50, 60), Step(100, 0)>>

CanaryConfigs ==
    { NoCanary,
      << >>,
      ReadmeSteps,
      <<Step(50, 0), Step(50, 0), Step(100, 0)>>,
      <<Step(50, 0), Step(10, 0), Step(100, 0)>>,
      <<Step(10, 0), Step(50, 0)>> }

\* ------------------------------------------------------------------- state

VARIABLES
    \* ManagedApplicationSpec
    specVersion, paused, strategy,
    \* ManagedApplicationStatus
    phase, currentVersion, canaryWeight, conditions,
    \* the cluster: migration Jobs, the client's cache of them, the workload
    jobs, jobCache, workloadVersion, trafficWeight,
    \* the health gate's persisted bookkeeping, and the new version's health
    gate, healthy,
    \* the number of disturbances so far
    disturbances,
    \* history: the last Reconcile's return, the calls it made, the weights
    \* applied and phases persisted in this cycle, the Jobs created, and
    \* currentVersion at the start of the attempt
    lastResult, weightLog, phaseLog, nextUid, attemptBase,
    \* metadata.resourceVersion of the persisted application, the copy of
    \* it an invocation has read, and the outcome of its status write
    resourceVersion, snapshot, lastWrite,
    \* whether the application exists, metadata.deletionTimestamp, and the
    \* controller's finalizer in metadata.finalizers
    exists, deletionTimestamp, finalizer,
    \* ConfigMapSyncer: the syncer object, the ConfigMaps of the source
    \* namespace, the namespaces that exist, the ConfigMaps of the target
    \* namespaces, the ones syncToTargets created, the last Reconcile's return
    syncer, sourceConfigMaps, namespaces, targetConfigMaps, created, syncResult,
    \* BackupPolicy: the policy object, the PVCs its selector matches, the
    \* backup Jobs and the client's cache of them, the clock, the last
    \* Reconcile's return
    policy, pvcs, backupJobs, backupJobCache, now, backupResult,
    \* WebApp: the WebApp object, the Deployment, the Service, the last
    \* Reconcile's return, and whether any of the three objects was edited
    \* since that Reconcile
    webapp, deployment, service, webappResult, edited,
    \* PostgresUser: the PostgresUser object, the password of its role in
    \* the database, the password in its credentials Secret, the number of
    \* passwords generated, whether a rotation ran since rotatePassword was
    \* last changed, whether the role was created by the controller, and the
    \* last Reconcile's return
    user, role, secret, generated, rotated, createdRole, userResult

specVars == <<specVersion, paused, strategy>>
statusVars == <<phase, currentVersion, canaryWeight, conditions>>
clusterVars == <<jobs, jobCache, workloadVersion, trafficWeight>>
envVars == <<healthy, disturbances>>
histVars == <<lastResult, weightLog, phaseLog, nextUid, attemptBase>>
occVars == <<resourceVersion, snapshot, lastWrite>>
delVars == <<exists, deletionTimestamp, finalizer>>
syncerVars == <<syncer, sourceConfigMaps, namespaces, targetConfigMaps,
                created, syncResult>>
backupVars == <<policy, pvcs, backupJobs, backupJobCache, now, backupResult>>
webappVars == <<webapp, deployment, service, webappResult, edited>>
postgresVars == <<user, role, secret, generated, rotated, createdRole,
                  userResult>>
peerVars == <<syncerVars, backupVars, webappVars, postgresVars>>
vars == <<specVars, statusVars, clusterVars, gate, envVars, histVars,
          occVars, delVars, peerVars>>

\* ----------------------------------------------------------------- helpers

Range(s) == { s[i] : i \in DOMAIN s }

\* fmt.Sprintf("%s-migration-%s", app.Name, app.Spec.Version): one
\* application, so the version names the Job.
jobName == specVersion

JobsNamed(set, n) == { j \in set : j.name = n }

\* A batchv1.Job's zero value, which Get leaves in `existing` on an error.
ZeroJob == [name |-> "", uid |-> 0, succeeded |-> 0, failed |-> 0]

Result(op, requeueAfter, err, create, applied) ==
    [op |-> op, requeueAfter |-> requeueAfter, err |-> err,
     create |-> create, applied |-> applied]

\* meta.SetStatusCondition: one condition per type, the newest last.
SetCondition(conds, c) ==
    Append(SelectSeq(conds, LAMBDA x : x.type # c.type), c)

Condition(type, status, reason) ==
    [type |-> type, status |-> status, reason |-> reason]

HasCondition(type) == \E i \in DOMAIN conditions : conditions[i].type = type

\* A phase written to the status, and the log of distinct phases persisted.
LogPhase(p) == IF p = phase THEN phaseLog ELSE Append(phaseLog, p)

\* The health gate's bookkeeping before its first call of an attempt.
NoGate == [key |-> <<"", 0>>, pass |-> 0, fail |-> 0]

\* No copy of the application is held by an invocation (resourceVersion is
\* never 0 on a persisted object).
NoSnapshot == [rv |-> 0, paused |-> FALSE]

\* Spec section 3: weights non-decreasing and the last weight 100.
WellFormed(steps) ==
    /\ steps # NoCanary
    /\ \A i, j \in DOMAIN steps : i < j => steps[i].weight <= steps[j].weight
    /\ Len(steps) > 0 => steps[Len(steps)].weight = 100

Malformed(steps) == steps # NoCanary /\ ~WellFormed(steps)

\* -------------------------------------------------------------------- Init

ApplicationInit ==
    /\ specVersion \in {"v1", "v2"}
    /\ paused = FALSE
    /\ strategy \in [migrationJob : BOOLEAN, canary : CanaryConfigs,
                     rollback : BOOLEAN]
    /\ phase = ""
    /\ currentVersion = "v1"
    /\ canaryWeight = 0
    /\ conditions = << >>
    /\ jobs = {}
    /\ jobCache = {}
    /\ workloadVersion = "v1"
    /\ trafficWeight = 0
    /\ gate = NoGate
    /\ healthy \in BOOLEAN
    /\ disturbances = 0
    /\ lastResult = Result("none", 0, FALSE, "none", 0)
    /\ weightLog = << >>
    /\ phaseLog = << >>
    /\ nextUid = 1
    /\ attemptBase = "v1"
    /\ resourceVersion = 1
    /\ snapshot = NoSnapshot
    /\ lastWrite = "none"
    /\ exists = TRUE
    /\ deletionTimestamp = FALSE
    /\ finalizer = FALSE

\* The application controller at rest: nothing to upgrade.
ApplicationIdle ==
    /\ ApplicationInit
    /\ specVersion = "v1"
    /\ strategy = [migrationJob |-> FALSE, canary |-> NoCanary,
                   rollback |-> TRUE]
    /\ healthy = TRUE

\* ConfigMapSyncer (src/01-beginner/configmap-syncer/controllers): two target
\* namespaces, two ConfigMap names in the source namespace, two contents.
Namespaces == {"team-a", "team-b"}

SourceNames == {"app-config", "other-config"}

TargetLists == {<< >>, <<"team-a">>, <<"team-b">>, <<"team-a", "team-b">>}

\* corev1.ConfigMap's Data and BinaryData; the empty one stands for a
\* ConfigMap that does not exist.
NoConfigMap == [data |-> "", binaryData |-> ""]

Contents == {[data |-> "d1", binaryData |-> "b1"],
             [data |-> "d2", binaryData |-> "b2"]}

SyncResult(op, err, deleteErrors) ==
    [op |-> op, err |-> err, deleteErrors |-> deleteErrors]

NoSyncer ==
    [exists |-> FALSE, deletionTimestamp |-> FALSE, finalizer |-> FALSE,
     sourceConfigMap |-> "app-config", targetNamespaces |-> << >>,
     syncedNamespaces |-> << >>, failedNamespaces |-> << >>, ready |-> ""]

SyncerIdle ==
    /\ syncer = NoSyncer
    /\ sourceConfigMaps = [n \in SourceNames |-> NoConfigMap]
    /\ namespaces = {}
    /\ targetConfigMaps = [k \in Namespaces \X SourceNames |-> NoConfigMap]
    /\ created = {}
    /\ syncResult = SyncResult("none", FALSE, 0)

\* BackupPolicy (src/02-intermediate/statefulset-backup-operator).
BackupResult(op, err, requeueAfter, ranBackup, cleanupErr) ==
    [op |-> op, err |-> err, requeueAfter |-> requeueAfter,
     ranBackup |-> ranBackup, cleanupErr |-> cleanupErr]

NoPolicy ==
    [exists |-> FALSE, deletionTimestamp |-> FALSE, finalizer |-> FALSE,
     suspend |-> FALSE, schedule |-> 1, retentionCount |-> 0,
     lastScheduleTime |-> 0]

BackupIdle ==
    /\ policy = NoPolicy
    /\ pvcs = {}
    /\ backupJobs = {}
    /\ backupJobCache = {}
    /\ now = 0
    /\ backupResult = BackupResult("none", FALSE, 0, FALSE, FALSE)

\* WebApp (src/unnamed/part_001).
WebAppResult(op, err, calls, second) ==
    [op |-> op, err |-> err, calls |-> calls, second |-> second]

NoWebApp ==
    [exists |-> FALSE, replicas |-> 0, image |-> "", port |-> 0,
     availableReplicas |-> 0, serviceURL |-> 0, ready |-> ""]

\* A Deployment and a Service that do not exist.
NoDeployment ==
    [replicas |-> 0, image |-> "", containerPort |-> 0,
     availableReplicas |-> 0]

NoService == [port |-> 0, targetPort |-> 0]

WebAppIdle ==
    /\ webapp = NoWebApp
    /\ deployment = NoDeployment
    /\ service = NoService
    /\ webappResult = WebAppResult("none", FALSE, {}, FALSE)
    /\ edited = FALSE

\* No password: the role or the Secret does not exist (the empty string of
\* src/unnamed/part_000 line 299).
NoPassword == 0

\* The return of the PostgresUser reconciler: the step it returned from,
\* whether it returned an error, and whether it generated a password.
UserResult(op, err, rotation) == [op |-> op, err |-> err, rotation |-> rotation]

NoUser ==
    [exists |-> FALSE, deletionTimestamp |-> FALSE, finalizer |-> FALSE,
     rotatePassword |-> FALSE, ready |-> FALSE,
     lastPasswordRotation |-> FALSE]

PostgresIdle ==
    /\ user = NoUser
    /\ role = NoPassword
    /\ secret = NoPassword
    /\ generated = 0
    /\ rotated = FALSE
    /\ createdRole = FALSE
    /\ userResult = UserResult("none", FALSE, FALSE)

PeersIdle == SyncerIdle /\ BackupIdle /\ WebAppIdle /\ PostgresIdle

Init == ApplicationInit /\ PeersIdle

\* ------------------------------------------------------------- environment

\* The user edits spec.version.
UserSetVersion(v) ==
    /\ disturbances < MaxDisturbances
    /\ v # specVersion
    /\ specVersion' = v
    /\ disturbances' = disturbances + 1
    /\ UNCHANGED <<paused, strategy, statusVars, clusterVars, gate, healthy,
                   histVars>>

\* The user flips spec.paused.
UserSetPaused(b) ==
    /\ disturbances < MaxDisturbances
    /\ b # paused
    /\ paused' = b
    /\ disturbances' = disturbances + 1
    /\ UNCHANGED <<specVersion, strategy, statusVars, clusterVars, gate,
                   healthy, histVars>>

\* A pod of a migration Job succeeds: Status.Succeeded becomes 1.
JobPodSucceeds(j) ==
    /\ j \in jobs
    /\ j.succeeded = 0
    /\ jobs' = (jobs \ {j}) \cup {[j EXCEPT !.succeeded = 1]}
    /\ UNCHANGED <<specVars, statusVars, jobCache, workloadVersion,
                   trafficWeight, gate, envVars, histVars>>

\* A pod of a migration Job fails: Status.Failed becomes 1 (the Job may
\* still retry and succeed).
JobPodFails(j) ==
    /\ j \in jobs
    /\ j.succeeded = 0
    /\ j.failed = 0
    /\ jobs' = (jobs \ {j}) \cup {[j EXCEPT !.failed = 1]}
    /\ UNCHANGED <<specVars, statusVars, jobCache, workloadVersion,
                   trafficWeight, gate, envVars, histVars>>

\* The client's informer cache catches up with the API server.
CacheSync ==
    /\ jobCache # jobs
    /\ jobCache' = jobs
    /\ UNCHANGED <<specVars, statusVars, jobs, workloadVersion, trafficWeight,
                   gate, envVars, histVars>>

\* The new version's health endpoint starts or stops answering.
HealthFlip ==
    /\ disturbances < MaxDisturbances
    /\ healthy' = ~healthy
    /\ disturbances' = disturbances + 1
    /\ UNCHANGED <<specVars, statusVars, clusterVars, gate, histVars>>

\* The controller process restarts and the health gate starts its
\* confirmation window again (spec 4.3).
ProcessRestart ==
    /\ disturbances < MaxDisturbances
    /\ gate.pass + gate.fail > 0
    /\ gate' = [gate EXCEPT !.pass = 0, !.fail = 0]
    /\ disturbances' = disturbances + 1
    /\ UNCHANGED <<specVars, statusVars, clusterVars, healthy, histVars>>

\* ------------------------------------------------------- API calls, status

\* r.Create(ctx, job) at the API server: a name is taken at most once.
CreateOutcome(name) ==
    IF JobsNamed(jobs, name) # {} THEN "alreadyExists" ELSE "created"

NewJob(name) == [name |-> name, uid |-> nextUid, succeeded |-> 0, failed |-> 0]

\* r.Get(ctx, name, existing) through the cached client: whether it reports
\* NotFound, and what it leaves in `existing`.
GetNotFound(fault) == fault # "get" /\ JobsNamed(jobCache, jobName) = {}

GetExisting(fault) ==
    IF fault = "get" \/ JobsNamed(jobCache, jobName) = {} THEN ZeroJob
    ELSE CHOOSE j \in JobsNamed(jobCache, jobName) :
             \A k \in JobsNamed(jobCache, jobName) : j.uid <= k.uid

\* Mutant: the write of the phase also records the target as current.
UpdatePhase_SetsVersion(p) ==
    /\ phase' = p
    /\ phaseLog' = LogPhase(p)
    /\ currentVersion' = specVersion
    /\ UNCHANGED <<canaryWeight, conditions>>

\* app.Status.Phase = p; r.Status().Update(ctx, app).
UpdatePhase(p) ==
    /\ phase' = p
    /\ phaseLog' = LogPhase(p)
    /\ UNCHANGED <<currentVersion, canaryWeight, conditions>>

Return(op, requeueAfter, err) ==
    lastResult' = Result(op, requeueAfter, err, "none", 0)

\* ---------------------------------------------------------------- handlers

\* Mutant: the migration task of the strategy is ignored.
startUpgrade_NoMigration(fault) ==
    IF fault = "update"
    THEN /\ Return("startUpgrade", 0, TRUE)
         /\ UNCHANGED <<statusVars, clusterVars, gate, weightLog, phaseLog,
                        nextUid, attemptBase>>
    ELSE /\ phase' = "Deploying"
         /\ phaseLog' = <<"Deploying">>
         /\ weightLog' = << >>
         /\ attemptBase' = currentVersion
         /\ gate' = NoGate
         /\ Return("startUpgrade", 0, FALSE)
         /\ UNCHANGED <<currentVersion, canaryWeight, conditions, clusterVars,
                        nextUid>>

\* Healthy/Idle -> Migrating when the strategy defines a migration task,
\* otherwise -> Deploying (spec 4.1).
startUpgrade(fault) ==
    LET p == IF strategy.migrationJob THEN "Migrating" ELSE "Deploying" IN
    IF fault = "update"
    THEN /\ Return("startUpgrade", 0, TRUE)
         /\ UNCHANGED <<statusVars, clusterVars, gate, weightLog, phaseLog,
                        nextUid, attemptBase>>
    ELSE /\ phase' = p
         /\ phaseLog' = <<p>>
         /\ weightLog' = << >>
         /\ attemptBase' = currentVersion
         /\ gate' = NoGate
         /\ Return("startUpgrade", 0, FALSE)
         /\ UNCHANGED <<currentVersion, canaryWeight, conditions, clusterVars,
                        nextUid>>

\* Mutant: Failed is looked at before Succeeded.
MigrationPhase_FailedFirst(existing) ==
    IF existing.failed > 0 THEN "Failed" ELSE "Deploying"

\* README lines 769-778: Succeeded is looked at before Failed.
MigrationPhase(existing) ==
    IF existing.succeeded > 0 THEN "Deploying" ELSE "Failed"

\* README lines 735-781.  The error of Status().Update is returned in the
\* place of the Result with a nil error, so a failed write is not reported.
runMigration(fault) ==
    LET existing == GetExisting(fault) IN
    IF GetNotFound(fault)
    THEN IF fault = "create" \/ CreateOutcome(jobName) = "alreadyExists"
         THEN /\ lastResult' = Result("runMigration", 0, TRUE,
                     IF fault = "create" THEN "error" ELSE "alreadyExists", 0)
              /\ UNCHANGED <<statusVars, clusterVars, gate, weightLog,
                             phaseLog, nextUid, attemptBase>>
         ELSE /\ jobs' = jobs \cup {NewJob(jobName)}
              /\ nextUid' = nextUid + 1
              /\ lastResult' = Result("runMigration", MigrationPollSeconds,
                                      FALSE, "created", 0)
              /\ UNCHANGED <<statusVars, jobCache, workloadVersion,
                             trafficWeight, gate, weightLog, phaseLog,
                             attemptBase>>
    ELSE IF existing.succeeded > 0 \/ existing.failed > 0
         THEN /\ IF fault = "update"
                 THEN UNCHANGED <<statusVars, phaseLog>>
                 ELSE UpdatePhase(MigrationPhase(existing))
              /\ Return("runMigration", 0, FALSE)
              /\ UNCHANGED <<clusterVars, gate, weightLog, nextUid,
                             attemptBase>>
         ELSE /\ Return("runMigration", MigrationPollSeconds, FALSE)
              /\ UNCHANGED <<statusVars, clusterVars, gate, weightLog,
                             phaseLog, nextUid, attemptBase>>

\* Deploying -> HealthChecking once the new version's workload has been
\* applied (spec 4.1; applyVersion of spec 6).
deployNewVersion(fault) ==
    IF fault = "apply"
    THEN /\ Return("deployNewVersion", 0, TRUE)
         /\ UNCHANGED <<statusVars, clusterVars, gate, weightLog, phaseLog,
                        nextUid, attemptBase>>
    ELSE /\ workloadVersion' = specVersion
         /\ IF fault = "update"
            THEN UNCHANGED <<statusVars, phaseLog>>
            ELSE UpdatePhase("HealthChecking")
         /\ Return("deployNewVersion", 0, fault = "update")
         /\ UNCHANGED <<jobs, jobCache, trafficWeight, gate, weightLog,
                        nextUid, attemptBase>>

\* Mutant: a failing probe does not end a run of passing probes.
GateAfter_NotConsecutive(key, probePasses) ==
    LET g == IF gate.key = key THEN gate
             ELSE [key |-> key, pass |-> 0, fail |-> 0]
    IN IF g.pass >= SuccessThreshold \/ g.fail >= FailureThreshold THEN g
       ELSE IF probePasses THEN [g EXCEPT !.pass = g.pass + 1]
       ELSE [g EXCEPT !.fail = g.fail + 1]

\* The Health Gate (spec 4.3): the bookkeeping for `key` after one more
\* call.  A reached threshold is kept; otherwise one probe is made and the
\* consecutive counts follow its outcome.
GateAfter(key, probePasses) ==
    LET g == IF gate.key = key THEN gate
             ELSE [key |-> key, pass |-> 0, fail |-> 0]
    IN IF g.pass >= SuccessThreshold \/ g.fail >= FailureThreshold THEN g
       ELSE IF probePasses THEN [g EXCEPT !.pass = g.pass + 1, !.fail = 0]
       ELSE [g EXCEPT !.fail = g.fail + 1, !.pass = 0]

Verdict(g) ==
    IF g.fail >= FailureThreshold THEN "failing"
    ELSE IF g.pass >= SuccessThreshold THEN "passing"
    ELSE "pending"

\* HealthChecking -> Canary (canary steps defined) or -> Promoting on a
\* passing gate, -> Failed on a failing gate (spec 4.1).
performHealthCheck(fault) ==
    LET g == GateAfter(<<"HealthChecking", 0>>, healthy)
        v == Verdict(g)
        p == IF v = "failing" THEN "Failed"
             ELSE IF v = "pending" THEN phase
             ELSE IF strategy.canary # NoCanary THEN "Canary"
             ELSE "Promoting"
    IN /\ gate' = g
       /\ IF fault = "update" /\ v # "pending"
          THEN /\ UNCHANGED <<statusVars, phaseLog>>
               /\ Return("performHealthCheck", 0, TRUE)
          ELSE /\ UpdatePhase(p)
               /\ Return("performHealthCheck",
                         IF v = "pending" THEN PeriodSeconds ELSE 0, FALSE)
       /\ UNCHANGED <<clusterVars, weightLog, nextUid, attemptBase>>

\* Mutant: the outcome of the restore call is not looked at.
rollback_IgnoresRestore(fault) ==
    /\ IF fault = "restore"
       THEN UNCHANGED workloadVersion
       ELSE workloadVersion' = currentVersion
    /\ jobs' = jobs \ JobsNamed(jobs, jobName)
    /\ trafficWeight' = 0
    /\ IF fault = "update"
       THEN UNCHANGED <<statusVars, phaseLog>>
       ELSE /\ canaryWeight' = 0
            /\ conditions' = SetCondition(conditions,
                    Condition("RolledBack", "True", "RollbackComplete"))
            /\ phase' = "Failed"
            /\ phaseLog' = LogPhase("Failed")
            /\ UNCHANGED currentVersion
    /\ Return("rollback", 0, fault = "update")
    /\ UNCHANGED <<jobCache, gate, weightLog, nextUid, attemptBase>>

\* The Rollback Manager (spec 4.5): restores the workload to
\* status.currentVersion, deletes the migration task of the failed target
\* version and the traffic split, resets canaryWeight and records the
\* outcome in a condition; a failed restore is reported and changes nothing
\* else.
rollback(fault) ==
    IF fault = "restore"
    THEN /\ conditions' = SetCondition(conditions,
                 Condition("RolledBack", "False", "RestoreFailed"))
         /\ Return("rollback", 0, TRUE)
         /\ UNCHANGED <<phase, currentVersion, canaryWeight, clusterVars,
                        gate, weightLog, phaseLog, nextUid, attemptBase>>
    ELSE /\ workloadVersion' = currentVersion
         /\ jobs' = jobs \ JobsNamed(jobs, jobName)
         /\ trafficWeight' = 0
         /\ IF fault = "update"
            THEN UNCHANGED <<statusVars, phaseLog>>
            ELSE /\ canaryWeight' = 0
                 /\ conditions' = SetCondition(conditions,
                         Condition("RolledBack", "True", "RollbackComplete"))
                 /\ phase' = "Failed"
                 /\ phaseLog' = LogPhase("Failed")
                 /\ UNCHANGED currentVersion
         /\ Return("rollback", 0, fault = "update")
         /\ UNCHANGED <<jobCache, gate, weightLog, nextUid, attemptBase>>

RolledBack ==
    \E i \in DOMAIN conditions :
        conditions[i].type = "RolledBack" /\ conditions[i].status = "True"

\* The position in the step list, read from status.canaryWeight (spec 4.4):
\* the 0-based index of the first step whose weight is above it.
getCurrentCanaryStep ==
    LET steps == strategy.canary
        later == { i \in DOMAIN steps : steps[i].weight > canaryWeight }
    IN IF later = {} THEN Len(steps)
       ELSE (CHOOSE i \in later : \A k \in later : i <= k) - 1

\* setTrafficWeight of the workload manager (spec 6).
updateTrafficWeight(w) ==
    /\ trafficWeight' = w
    /\ weightLog' = Append(weightLog, w)

\* Canary -> Promoting after the last step (spec 4.1).
promoteCanary(fault) ==
    /\ IF fault = "update"
       THEN UNCHANGED <<statusVars, phaseLog>>
       ELSE UpdatePhase("Promoting")
    /\ Return("promoteCanary", 0, fault = "update")
    /\ UNCHANGED <<clusterVars, gate, weightLog, nextUid, attemptBase>>

\* README lines 787-810.
deployCanary(fault) ==
    LET canary == strategy.canary
        currentStep == getCurrentCanaryStep
    IN IF currentStep >= Len(canary)
       THEN promoteCanary(fault)
       ELSE LET step == canary[currentStep + 1] IN
            IF fault = "traffic"
            THEN /\ Return("deployCanary", 0, TRUE)
                 /\ UNCHANGED <<statusVars, clusterVars, gate, weightLog,
                                phaseLog, nextUid, attemptBase>>
            ELSE /\ updateTrafficWeight(step.weight)
                 /\ IF fault = "update"
                    THEN /\ UNCHANGED <<statusVars, phaseLog>>
                         /\ lastResult' = Result("deployCanary", 0, TRUE,
                                                 "none", step.weight)
                    ELSE /\ canaryWeight' = step.weight
                         /\ lastResult' = Result("deployCanary", step.pause,
                                                 FALSE, "none", step.weight)
                         /\ UNCHANGED <<phase, currentVersion, conditions,
                                        phaseLog>>
                 /\ UNCHANGED <<jobs, jobCache, workloadVersion, gate,
                                nextUid, attemptBase>>

\* Mutant: the promotion leaves status.canaryWeight as it is.
promote_KeepsWeight(fault) ==
    IF fault = "update"
    THEN /\ Return("promote", 0, TRUE)
         /\ UNCHANGED <<statusVars, clusterVars, gate, weightLog, phaseLog,
                        nextUid, attemptBase>>
    ELSE /\ currentVersion' = specVersion
         /\ phase' = "Healthy"
         /\ phaseLog' = LogPhase("Healthy")
         /\ jobs' = {}
         /\ trafficWeight' = 0
         /\ Return("promote", 0, FALSE)
         /\ UNCHANGED <<canaryWeight, conditions, jobCache, workloadVersion,
                        gate, weightLog, nextUid, attemptBase>>

\* Promoting -> Healthy: currentVersion = targetVersion, canaryWeight = 0,
\* migration and canary artifacts cleared (spec 4.1).
promote(fault) ==
    IF fault = "update"
    THEN /\ Return("promote", 0, TRUE)
         /\ UNCHANGED <<statusVars, clusterVars, gate, weightLog, phaseLog,
                        nextUid, attemptBase>>
    ELSE /\ currentVersion' = specVersion
         /\ canaryWeight' = 0
         /\ phase' = "Healthy"
         /\ phaseLog' = LogPhase("Healthy")
         /\ jobs' = {}
         /\ trafficWeight' = 0
         /\ Return("promote", 0, FALSE)
         /\ UNCHANGED <<conditions, jobCache, workloadVersion, gate,
                        weightLog, nextUid, attemptBase>>

\* Failed -> RollingBack if rollback is enabled by configuration (spec 4.1).
beginRollback(fault) ==
    /\ IF fault = "update"
       THEN UNCHANGED <<statusVars, phaseLog>>
       ELSE UpdatePhase("RollingBack")
    /\ Return("beginRollback", 0, fault = "update")
    /\ UNCHANGED <<clusterVars, gate, weightLog, nextUid, attemptBase>>

\* A Reconcile that returns ctrl.Result{}, nil without doing anything.
NoOp(op) ==
    /\ Return(op, 0, FALSE)
    /\ UNCHANGED <<statusVars, clusterVars, gate, weightLog, phaseLog,
                   nextUid, attemptBase>>

\* r.Get of the application failed: the error is returned.
GetFailed ==
    /\ Return("getApp", 0, TRUE)
    /\ UNCHANGED <<statusVars, clusterVars, gate, weightLog, phaseLog,
                   nextUid, attemptBase>>

\* --------------------------------------------------------------- Reconcile

\* The phase switch of README lines 715-726.
Dispatch(fault) ==
    CASE phase = "" -> startUpgrade(fault)
      [] phase = "Migrating" -> runMigration(fault)
      [] phase = "Deploying" -> deployNewVersion(fault)
      [] phase = "HealthChecking" -> performHealthCheck(fault)
      [] phase = "Failed" -> rollback(fault)
      [] OTHER -> NoOp("noCase")

\* Mutant: the check "upgrade needed" is missing.
Reconcile_NoVersionCheck(fault) ==
    IF fault = "getApp" THEN GetFailed
    ELSE IF paused THEN NoOp("paused")
    ELSE Dispatch(fault)

\* Mutant: the check of spec.paused is missing.
Reconcile_NoPauseCheck(fault) ==
    IF fault = "getApp" THEN GetFailed
    ELSE IF currentVersion = specVersion THEN NoOp("upToDate")
    ELSE Dispatch(fault)

\* README lines 698-729.
Reconcile(fault) ==
    IF fault = "getApp" THEN GetFailed
    ELSE IF paused THEN NoOp("paused")
    ELSE IF currentVersion = specVersion THEN NoOp("upToDate")
    ELSE Dispatch(fault)

\* The state machine of spec 4.1: the same entry checks, and a case for
\* each of the eight phases.
ReconcileSM(fault) ==
    IF fault = "getApp" THEN GetFailed
    ELSE IF paused THEN NoOp("paused")
    ELSE IF currentVersion = specVersion THEN NoOp("upToDate")
    ELSE CASE phase \in {"", "Healthy"} -> startUpgrade(fault)
           [] phase = "Migrating" -> runMigration(fault)
           [] phase = "Deploying" -> deployNewVersion(fault)
           [] phase = "HealthChecking" -> performHealthCheck(fault)
           [] phase = "Canary" -> deployCanary(fault)
           [] phase = "Promoting" -> promote(fault)
           [] phase = "Failed" ->
                  IF strategy.rollback /\ ~RolledBack
                  THEN beginRollback(fault) ELSE NoOp("terminal")
           [] phase = "RollingBack" -> rollback(fault)

\* The calls of one invocation that can fail: the read of the application,
\* and past the entry checks the calls of the phase's handler.
Faults ==
    {"none", "getApp"} \cup
    IF paused \/ currentVersion = specVersion THEN {}
    ELSE CASE phase \in {"", "Healthy", "Promoting"} -> {"update"}
           [] phase = "Migrating" -> {"get", "create", "update"}
           [] phase = "Deploying" -> {"apply", "update"}
           [] phase = "HealthChecking" -> {"update"}
           [] phase = "Canary" -> {"traffic", "update"}
           [] phase \in {"Failed", "RollingBack"} -> {"restore", "update"}

\* One invocation by the controller runtime, with at most one failing call.
Inject(fault) ==
    /\ fault = "none" \/ disturbances < MaxDisturbances
    /\ disturbances' = IF fault = "none" THEN disturbances
                       ELSE disturbances + 1
    /\ UNCHANGED <<specVars, healthy>>

ReconcileCall ==
    /\ \E fault \in Faults : Inject(fault) /\ Reconcile(fault)
    /\ UNCHANGED <<occVars, delVars, peerVars>>

ReconcileSMCall ==
    /\ \E fault \in Faults : Inject(fault) /\ ReconcileSM(fault)
    /\ UNCHANGED <<occVars, delVars, peerVars>>

\* What happens in the cluster without the user.
ClusterStep ==
    \/ \E j \in jobs : JobPodSucceeds(j)
    \/ \E j \in jobs : JobPodFails(j)
    \/ CacheSync
    \/ HealthFlip
    \/ ProcessRestart

Environment ==
    /\ \/ \E v \in Versions : UserSetVersion(v)
       \/ \E b \in BOOLEAN : UserSetPaused(b)
       \/ ClusterStep
    /\ UNCHANGED <<occVars, delVars, peerVars>>

Next == ReconcileCall \/ Environment

NextSM == ReconcileSMCall \/ Environment

\* The code reads neither the step list beyond its presence nor a rollback
\* switch: Spec starts from the configurations that differ for it.
InitCode ==
    /\ Init
    /\ strategy.rollback
    /\ strategy.canary \in {NoCanary, ReadmeSteps}

Spec == InitCode /\ [][Next]_vars

SpecSM == Init /\ [][NextSM]_vars

\* The controller runtime invokes Reconcile again and again and calls do not
\* fail forever; Jobs run to completion and the cache catches up.
ReconcileOk ==
    /\ Inject("none") /\ Reconcile("none")
    /\ UNCHANGED <<occVars, delVars, peerVars>>

ReconcileSMOk ==
    /\ Inject("none") /\ ReconcileSM("none")
    /\ UNCHANGED <<occVars, delVars, peerVars>>

ClusterFairness ==
    /\ WF_vars(CacheSync /\ UNCHANGED <<occVars, delVars, peerVars>>)
    /\ WF_vars(/\ \E j \in jobs : JobPodSucceeds(j)
               /\ UNCHANGED <<occVars, delVars, peerVars>>)

FairSpec == Spec /\ WF_vars(ReconcileOk) /\ ClusterFairness

FairSpecSM == SpecSM /\ WF_vars(ReconcileSMOk) /\ ClusterFairness

\* ------------------------------------------------- optimistic concurrency

\* Mutant: the API server accepts a write whatever its version token.
WriteAccepted_Always(token) == TRUE

\* writeStatus of spec 6, r.Status().Update of the code: the write is
\* accepted if the resourceVersion it carries is the persisted one.
WriteAccepted(token) == token = resourceVersion

\* Whether the handler of the persisted phase calls r.Status().Update in
\* this invocation.
WritesStatus ==
    CASE phase \in {"", "Deploying", "Failed"} -> TRUE
      [] phase = "Migrating" ->
             /\ ~GetNotFound("none")
             /\ \/ GetExisting("none").succeeded > 0
                \/ GetExisting("none").failed > 0
      [] phase = "HealthChecking" ->
             Verdict(GateAfter(<<"HealthChecking", 0>>, healthy)) # "pending"
      [] OTHER -> FALSE

\* README lines 699-702: r.Get reads the application, resourceVersion
\* included, into app.
GetApp ==
    /\ snapshot = NoSnapshot
    /\ snapshot' = [rv |-> resourceVersion, paused |-> paused]
    /\ UNCHANGED <<specVars, statusVars, clusterVars, gate, envVars, histVars,
                   resourceVersion, lastWrite, delVars, peerVars>>

\* README lines 704-728 on the copy read by GetApp: the pause check reads
\* the copy, and the status write of the handler carries the copy's
\* resourceVersion; a rejected write is a failed r.Status().Update.
ReconcileApp ==
    /\ snapshot # NoSnapshot
    /\ snapshot' = NoSnapshot
    /\ Inject("none")
    /\ LET early == snapshot.paused \/ currentVersion = specVersion
           stale == ~early /\ WritesStatus /\ ~WriteAccepted(snapshot.rv)
       IN /\ IF snapshot.paused THEN NoOp("paused")
             ELSE IF currentVersion = specVersion THEN NoOp("upToDate")
             ELSE Dispatch(IF stale THEN "update" ELSE "none")
          /\ lastWrite' = IF early \/ ~WritesStatus THEN "none"
                          ELSE IF stale THEN "conflict" ELSE "ok"
    /\ resourceVersion' = IF statusVars' # statusVars
                          THEN resourceVersion + 1 ELSE resourceVersion
    /\ UNCHANGED <<delVars, peerVars>>

\* The user flips spec.paused: the API server gives the application a new
\* resourceVersion.
UserEditsPaused ==
    /\ \E b \in BOOLEAN : UserSetPaused(b)
    /\ resourceVersion' = resourceVersion + 1
    /\ UNCHANGED <<snapshot, lastWrite, delVars, peerVars>>

NextOCC ==
    \/ GetApp
    \/ ReconcileApp
    \/ UserEditsPaused
    \/ ClusterStep /\ UNCHANGED <<occVars, delVars, peerVars>>

InitOCC ==
    /\ InitCode
    /\ specVersion = "v2"

SpecOCC == InitOCC /\ [][NextOCC]_vars

\* ---------------------------------------------------------------- deletion

\* r.cleanup (spec 5): tears down the migration tasks and the traffic split.
cleanup ==
    /\ jobs' = {}
    /\ trafficWeight' = 0

\* Mutant: the finalizer is removed whatever cleanup returned.
ReconcileDeletion_NoGate(fault) ==
    IF ~exists THEN NoOp("notFound") /\ UNCHANGED delVars
    ELSE IF fault = "getApp" THEN GetFailed /\ UNCHANGED delVars
    ELSE IF deletionTimestamp
    THEN /\ IF fault = "cleanup" THEN UNCHANGED <<jobs, trafficWeight>>
            ELSE cleanup
         /\ Return("finalize", 0, fault = "removeFinalizer")
         /\ IF fault = "removeFinalizer" THEN UNCHANGED delVars
            ELSE /\ finalizer' = FALSE
                 /\ exists' = FALSE
                 /\ UNCHANGED deletionTimestamp
         /\ UNCHANGED <<statusVars, jobCache, workloadVersion, gate,
                        weightLog, phaseLog, nextUid, attemptBase>>
    ELSE IF fault = "addFinalizer"
    THEN /\ Return("addFinalizer", 0, TRUE)
         /\ UNCHANGED <<statusVars, clusterVars, gate, weightLog, phaseLog,
                        nextUid, attemptBase, delVars>>
    ELSE /\ finalizer' = TRUE
         /\ UNCHANGED <<exists, deletionTimestamp>>
         /\ ReconcileSM(fault)

\* src/unnamed/part_003 lines 142-175, with the state machine as the
\* normal reconciliation logic.  The API server removes an application
\* that has a deletionTimestamp and no finalizer left.
ReconcileDeletion(fault) ==
    IF ~exists THEN NoOp("notFound") /\ UNCHANGED delVars
    ELSE IF fault = "getApp" THEN GetFailed /\ UNCHANGED delVars
    ELSE IF deletionTimestamp
    THEN IF ~finalizer THEN NoOp("deleting") /\ UNCHANGED delVars
         ELSE IF fault = "cleanup"
         THEN /\ Return("finalize", 0, TRUE)
              /\ UNCHANGED <<statusVars, clusterVars, gate, weightLog,
                             phaseLog, nextUid, attemptBase, delVars>>
         ELSE /\ cleanup
              /\ Return("finalize", 0, fault = "removeFinalizer")
              /\ IF fault = "removeFinalizer" THEN UNCHANGED delVars
                 ELSE /\ finalizer' = FALSE
                      /\ exists' = FALSE
                      /\ UNCHANGED deletionTimestamp
              /\ UNCHANGED <<statusVars, jobCache, workloadVersion, gate,
                             weightLog, phaseLog, nextUid, attemptBase>>
    ELSE IF fault = "addFinalizer"
    THEN /\ Return("addFinalizer", 0, TRUE)
         /\ UNCHANGED <<statusVars, clusterVars, gate, weightLog, phaseLog,
                        nextUid, attemptBase, delVars>>
    ELSE /\ finalizer' = TRUE
         /\ UNCHANGED <<exists, deletionTimestamp>>
         /\ ReconcileSM(fault)

\* The calls of ReconcileDeletion that can fail.
FaultsDel ==
    IF ~exists THEN {"none"}
    ELSE IF deletionTimestamp THEN {"none", "getApp", "cleanup",
                                    "removeFinalizer"}
    ELSE IF ~finalizer THEN Faults \cup {"addFinalizer"}
    ELSE Faults

ReconcileDeletionCall ==
    /\ \E fault \in FaultsDel : Inject(fault) /\ ReconcileDeletion(fault)
    /\ UNCHANGED <<occVars, peerVars>>

\* kubectl delete: the API server sets the deletionTimestamp, and removes
\* the application at once if it has no finalizer.
UserDelete ==
    /\ exists
    /\ ~deletionTimestamp
    /\ IF finalizer
       THEN deletionTimestamp' = TRUE /\ UNCHANGED <<exists, finalizer>>
       ELSE exists' = FALSE /\ UNCHANGED <<deletionTimestamp, finalizer>>
    /\ UNCHANGED <<specVars, statusVars, clusterVars, gate, envVars, histVars,
                   occVars, peerVars>>

NextDel ==
    \/ ReconcileDeletionCall
    \/ UserDelete
    \/ exists /\ Environment

InitDel ==
    /\ InitCode
    /\ specVersion = "v2"

SpecDel == InitDel /\ [][NextDel]_vars

\* ------------------------------------------------------------------ claims

IsPrefix(s, t) ==
    /\ Len(s) <= Len(t)
    /\ \A i \in 1..Len(s) : s[i] = t[i]

InCycle == phase \notin {"", "Healthy"}

\* An undisturbed upgrade v1 -> v2: no user edit, no failing call, the new
\* version healthy throughout, no pod of a migration Job failed (a failed
\* Job stays until a rollback deletes it and records a condition).
CleanRun ==
    /\ attemptBase = "v1"
    /\ specVersion = "v2"
    /\ ~paused
    /\ healthy
    /\ disturbances = 0
    /\ \A j \in jobs : j.failed = 0
    /\ ~HasCondition("RolledBack")

\* Scenario A of spec 8: a migration task and no canary.
ScenarioA ==
    /\ strategy.migrationJob
    /\ strategy.canary = NoCanary
    /\ CleanRun

ScenarioAPhases ==
    <<"Migrating", "Deploying", "HealthChecking", "Promoting", "Healthy">>

\* C1: in scenario A the distinct phases persisted are, in this order,
\* Migrating, Deploying, HealthChecking, Promoting, Healthy, and the run
\* ends Healthy with currentVersion = v2.
C1_ScenarioA ==
    /\ [](ScenarioA => /\ IsPrefix(phaseLog, ScenarioAPhases)
                       /\ (phase = "Healthy" => currentVersion = "v2"))
    /\ (<>(~ScenarioA) \/ <>(phase = "Healthy" /\ currentVersion = "v2"))

C3_CycleStartGuard ==
    [][(phase \in {"", "Healthy"} /\ (paused \/ specVersion = currentVersion))
          => /\ phase' = phase
             /\ nextUid' = nextUid
             /\ workloadVersion' = workloadVersion]_vars

\* Reconcile was invoked in the Idle phase of a paused application whose
\* target differs from the current version.
C3_Witness ==
    /\ phase = ""
    /\ paused
    /\ specVersion # currentVersion
    /\ lastResult.op = "paused"

\* C4: while paused is true no step changes status.phase,
\* status.currentVersion or status.canaryWeight, neither does setting or
\* clearing it, and the start handler never runs for a phase other than
\* the initial one: the invocation after the pause continues from the
\* persisted phase.
C4_PausedFreezes ==
    [][/\ (paused \/ paused')
            => UNCHANGED <<phase, currentVersion, canaryWeight>>
       /\ (InCycle /\ lastResult' # lastResult)
            => lastResult'.op # "startUpgrade"]_vars

\* Paused in the middle of a cycle, invoked while paused, and resumed.
C4_Witness ==
    /\ ~paused
    /\ lastResult.op = "paused"
    /\ phase = "Migrating"
    /\ specVersion # currentVersion

\* C6: at most one migration task per (application, version), and a
\* Create that finds the task already there is reported as success.
C6_CreateIdempotent ==
    /\ \A j, k \in jobs : j.name = k.name => j = k
    /\ lastResult.create = "alreadyExists" => ~lastResult.err

\* C7: an invocation in phase Migrating whose read of the migration task
\* shows Succeeded > 0 writes the phase Deploying, and leaves the phase
\* Migrating when its read of the application or its status write fails;
\* it never writes HealthChecking, a later phase or Failed.
C7_SucceededDeploys ==
    [][\A fault \in Faults :
          (/\ Inject(fault) /\ Reconcile(fault)
           /\ phase = "Migrating" /\ ~paused /\ specVersion # currentVersion
           /\ GetExisting(fault).succeeded > 0)
          => phase' = IF fault \in {"getApp", "update"} THEN "Migrating"
                      ELSE "Deploying"]_vars

\* runMigration has moved the phase to Deploying.
C7_Witness ==
    /\ phase = "Deploying"
    /\ lastResult.op = "runMigration"

DistinctWeights(steps) ==
    \A i, j \in DOMAIN steps : i # j => steps[i].weight # steps[j].weight

\* C5: repeated invocations create no second migration task of a name and
\* apply no canary step's weight to the traffic split a second time.
C5_Idempotent ==
    /\ \A j, k \in jobs : j.name = k.name => j.uid = k.uid
    /\ (WellFormed(strategy.canary) /\ DistinctWeights(strategy.canary))
          => \A i, j \in DOMAIN weightLog :
                 i # j => weightLog[i] # weightLog[j]

\* C8: a health gate that has counted FailureThreshold consecutive failing
\* probes makes the phase Failed within one invocation (the state is left
\* only by an invocation that failed or did nothing), in HealthChecking and
\* at every canary step: a canary step that has been applied has the gate
\* run for it.
C8_GateFailureFails ==
    /\ (phase = "HealthChecking" /\ gate.key[1] = "HealthChecking"
            /\ Verdict(gate) = "failing")
          => (lastResult.err \/ lastResult.op \in {"paused", "upToDate"})
    /\ (phase = "Canary" /\ canaryWeight > 0) => gate.key[1] = "Canary"

\* C9: for a step list that is not non-decreasing or does not end at 100
\* no traffic weight is applied, status.canaryWeight stays unchanged and
\* the rollout is not promoted.
C9_MalformedRejected ==
    Malformed(strategy.canary)
        => /\ weightLog = << >>
           /\ canaryWeight = 0
           /\ trafficWeight = 0
           /\ phase \notin {"Promoting", "Healthy"}

\* Scenario C of spec 8: the three steps of the README, every health check
\* passing.
ScenarioC ==
    /\ strategy.canary = ReadmeSteps
    /\ CleanRun

\* C10: in scenario C the weights applied and persisted are, in this
\* order, 10, 50, 100, then the phase is Promoting and then Healthy.
C10_ScenarioC ==
    /\ [](ScenarioC
            => /\ IsPrefix(weightLog, <<10, 50, 100>>)
               /\ (phase = "Canary" /\ weightLog # << >>)
                     => canaryWeight = weightLog[Len(weightLog)]
               /\ phase \in {"Promoting", "Healthy"}
                     => weightLog = <<10, 50, 100>>)
    /\ (<>(~ScenarioC)
          \/ <>(phase = "Healthy" /\ weightLog = <<10, 50, 100>>))

\* C11 (scenario D): while the canary step of weight 50 is the one applied,
\* the workload is unhealthy and the health gate has not passed for the
\* step, no step touches the traffic split with a larger weight, changes
\* status.canaryWeight or moves the phase anywhere but to Failed.
C11_ScenarioD ==
    [][(/\ phase = "Canary"
        /\ strategy.canary = ReadmeSteps
        /\ canaryWeight = 50
        /\ ~healthy
        /\ ~(gate.key[1] = "Canary" /\ Verdict(gate) = "passing"))
          => /\ canaryWeight' = 50
             /\ trafficWeight' <= 50
             /\ phase' \in {"Canary", "Failed"}]_vars

\* Scenario B of spec 8: a migration task that has failed and not
\* succeeded, nothing else going wrong.
ScenarioB ==
    /\ strategy.migrationJob
    /\ attemptBase = "v1"
    /\ specVersion = "v2"
    /\ ~paused
    /\ disturbances = 0
    /\ \A j \in jobs \cup jobCache : j.succeeded = 0
    /\ \/ \E j \in jobs : j.failed > 0
       \/ Len(phaseLog) >= 2 /\ phaseLog[2] = "Failed"

ScenarioBPhases == <<"Migrating", "Failed", "RollingBack", "Failed">>

\* C12: in scenario B the phases persisted are Migrating, Failed, and then
\* RollingBack, Failed exactly if rollback is enabled; currentVersion stays
\* v1; and the run gets to the end of this sequence.
C12_ScenarioB ==
    /\ [](ScenarioB
            => /\ IsPrefix(phaseLog, ScenarioBPhases)
               /\ ~strategy.rollback => "RollingBack" \notin Range(phaseLog)
               /\ currentVersion = "v1")
    /\ ScenarioB
         ~> \/ ~ScenarioB
            \/ /\ phase = "Failed"
               /\ phaseLog = IF strategy.rollback THEN ScenarioBPhases
                             ELSE <<"Migrating", "Failed">>

C16_RollingBackEnds ==
    /\ (phase = "RollingBack")
         ~> (phase = "Failed" \/ paused \/ specVersion = currentVersion)
    /\ (lastResult.op = "rollback") ~> (lastResult.op # "rollback")

\* C17: in Failed after a completed rollback, or with rollback disabled, an
\* invocation changes no status field, nothing in the cluster, and does not
\* roll back; Healthy with currentVersion equal to the target is not left.
C17_TerminalStates ==
    [][/\ (/\ phase = "Failed"
           /\ RolledBack \/ ~strategy.rollback
           /\ lastResult' # lastResult)
            => /\ UNCHANGED <<statusVars, clusterVars>>
               /\ lastResult'.op # "rollback"
       /\ (phase = "Healthy" /\ currentVersion = specVersion)
            => UNCHANGED <<phase, currentVersion, canaryWeight>>]_vars

EffectsOfStep ==
    (IF jobs' # jobs THEN {"task"} ELSE {})
    \cup (IF workloadVersion' # workloadVersion THEN {"workload"} ELSE {})
    \cup (IF trafficWeight' # trafficWeight THEN {"traffic"} ELSE {})
    \cup (IF gate' # gate /\ gate' # NoGate THEN {"probe"} ELSE {})

\* C21: an invocation acts on at most one collaborator, the one of the
\* persisted phase (the Rollback Manager and the promotion clear the
\* artifacts of the attempt as one operation), and it then has written the
\* status, or returned an error or a requeue, unless it returned at the
\* entry checks or in a terminal phase.
C21_OneEffectPerInvocation ==
    [][lastResult' # lastResult
         => /\ \/ lastResult'.op \in {"rollback", "promote"}
               \/ /\ Cardinality(EffectsOfStep) <= 1
                  /\ "task" \in EffectsOfStep => phase = "Migrating"
                  /\ "workload" \in EffectsOfStep => phase = "Deploying"
                  /\ "traffic" \in EffectsOfStep => phase = "Canary"
                  /\ "probe" \in EffectsOfStep
                       => phase \in {"HealthChecking", "Canary"}
            /\ \/ statusVars' # statusVars
               \/ lastResult'.err
               \/ lastResult'.requeueAfter > 0
               \/ lastResult'.op \in {"paused", "upToDate", "terminal"}]_vars

\* C22: in Canary a weight above the persisted canaryWeight is applied only
\* when the health gate has passed for the step already applied, and the
\* invocation that applies a step returns the step's pause as its requeue.
C22_CanaryStepGated ==
    [][(/\ phase = "Canary"
        /\ lastResult' # lastResult
        /\ lastResult'.op = "deployCanary"
        /\ lastResult'.applied > 0)
          => /\ canaryWeight > 0
                  => (gate.key[1] = "Canary" /\ Verdict(gate) = "passing")
             /\ ~lastResult'.err
                  => \E i \in DOMAIN strategy.canary :
                        /\ strategy.canary[i].weight = lastResult'.applied
                        /\ strategy.canary[i].pause = lastResult'.requeueAfter]_vars

\* C23: with an empty step list the rollout is promoted only with weight
\* 100 applied to the traffic split and persisted, as with the one step
\* {weight 100, pause 0}.
C23_EmptyCanaryIsFullCutover ==
    (strategy.canary = << >> /\ phase \in {"Promoting", "Healthy"})
        => /\ weightLog = <<100>>
           /\ phase = "Promoting" => canaryWeight = 100

\* ------------------------------------------------------- ConfigMapSyncer

\* The other controllers' variables, which this controller leaves alone.
applicationVars == <<specVars, statusVars, clusterVars, gate, healthy,
                     histVars, occVars, delVars>>

\* A fault injected into this invocation counts as a disturbance.
Disturb(faulty) ==
    IF faulty
    THEN disturbances < MaxDisturbances /\ disturbances' = disturbances + 1
    ELSE UNCHANGED disturbances

\* controller.go lines 231-236: the update branch assigns the source's Data
\* and BinaryData to the existing ConfigMap.
UpdateExisting_KeepsBinaryData(existing, source) ==
    [source EXCEPT !.binaryData = existing.binaryData]

UpdateExisting(existing, source) ==
    [existing EXCEPT !.data = source.data, !.binaryData = source.binaryData]

\* controller.go lines 185-245, one target namespace: it is synced when the
\* Namespace is found and the Create or Update of the copy succeeds.
TargetSynced(ns, failing) == ns \in namespaces /\ ns \notin failing

\* controller.go lines 177-249: the copies after syncToTargets.
SyncedCopies(source, failing) ==
    [k \in DOMAIN targetConfigMaps |->
        IF /\ k[2] = syncer.sourceConfigMap
           /\ k[1] \in Range(syncer.targetNamespaces)
           /\ TargetSynced(k[1], failing)
        THEN IF targetConfigMaps[k] = NoConfigMap
             THEN source
             ELSE UpdateExisting(targetConfigMaps[k], source)
        ELSE targetConfigMaps[k]]

\* The copies the Create branch (lines 218-226) made.
NewlyCreated(failing) ==
    { k \in DOMAIN targetConfigMaps :
        /\ k[2] = syncer.sourceConfigMap
        /\ k[1] \in Range(syncer.targetNamespaces)
        /\ TargetSynced(k[1], failing)
        /\ targetConfigMaps[k] = NoConfigMap }

\* controller.go lines 177-249 and 87-124: syncToTargets, then the status
\* with the synced and failed namespaces is written.
syncToTargets(fault, failing) ==
    LET source == sourceConfigMaps[syncer.sourceConfigMap]
        Ok(ns) == TargetSynced(ns, failing)
        Bad(ns) == ~TargetSynced(ns, failing)
        synced == SelectSeq(syncer.targetNamespaces, Ok)
        failed == SelectSeq(syncer.targetNamespaces, Bad)
    IN  /\ targetConfigMaps' = SyncedCopies(source, failing)
        /\ created' = created \cup NewlyCreated(failing)
        /\ IF fault = "status"
           THEN /\ syncer' = [syncer EXCEPT !.finalizer = TRUE]
                /\ syncResult' = SyncResult("sync", TRUE,
                                            syncResult.deleteErrors)
           ELSE /\ syncer' = [syncer EXCEPT
                                !.finalizer = TRUE,
                                !.syncedNamespaces = synced,
                                !.failedNamespaces = failed,
                                !.ready = IF failed = << >>
                                          THEN "SyncSuccessful"
                                          ELSE "SyncPartiallyFailed"]
                /\ syncResult' = SyncResult("sync", FALSE,
                                            syncResult.deleteErrors)

\* The first target namespace whose Delete fails with an error other than
\* NotFound, 0 when there is none (controller.go lines 135-148).
FirstFailing(failing) ==
    LET bad == { i \in DOMAIN syncer.targetNamespaces :
                    syncer.targetNamespaces[i] \in failing }
    IN  IF bad = {} THEN 0
        ELSE CHOOSE i \in bad : \A j \in bad : i <= j

\* The copies after the Deletes of the first `upTo` target namespaces.
AfterDeletes(upTo) ==
    [k \in DOMAIN targetConfigMaps |->
        IF /\ k[2] = syncer.sourceConfigMap
           /\ \E i \in 1..upTo : syncer.targetNamespaces[i] = k[1]
        THEN NoConfigMap
        ELSE targetConfigMaps[k]]

\* The same loop with the Delete error logged and skipped.
handleDeletion_IgnoresDeleteError(fault, failing) ==
    /\ UNCHANGED created
    /\ targetConfigMaps' =
          [k \in DOMAIN targetConfigMaps |->
              IF k[1] \in failing THEN targetConfigMaps[k]
              ELSE AfterDeletes(Len(syncer.targetNamespaces))[k]]
    /\ IF fault = "update"
       THEN /\ syncResult' = SyncResult("handleDeletion", TRUE,
                                        syncResult.deleteErrors)
            /\ UNCHANGED syncer
       ELSE /\ syncResult' = SyncResult("handleDeletion", FALSE,
                                        syncResult.deleteErrors)
            /\ syncer' = [syncer EXCEPT !.finalizer = FALSE,
                                        !.exists = FALSE]

\* controller.go lines 128-163: delete the copy in every target namespace,
\* return the first error that is not NotFound, then remove the finalizer;
\* the API server removes the object with its last finalizer.
handleDeletion(fault, failing) ==
    /\ UNCHANGED created
    /\ IF FirstFailing(failing) # 0
       THEN /\ targetConfigMaps' = AfterDeletes(FirstFailing(failing) - 1)
            /\ syncResult' = SyncResult("handleDeletion", TRUE,
                                        syncResult.deleteErrors + 1)
            /\ UNCHANGED syncer
       ELSE /\ targetConfigMaps' = AfterDeletes(Len(syncer.targetNamespaces))
            /\ IF fault = "update"
               THEN /\ syncResult' = SyncResult("handleDeletion", TRUE,
                                                syncResult.deleteErrors)
                    /\ UNCHANGED syncer
               ELSE /\ syncResult' = SyncResult("handleDeletion", FALSE,
                                                syncResult.deleteErrors)
                    /\ syncer' = [syncer EXCEPT !.finalizer = FALSE,
                                                !.exists = FALSE]

\* An invocation that changes nothing but its return.
SyncerReturns(op, err) ==
    /\ syncResult' = SyncResult(op, err, syncResult.deleteErrors)
    /\ UNCHANGED <<syncer, targetConfigMaps, created>>

\* controller.go lines 40-125.
SyncerReconcile(fault, failing) ==
    /\ UNCHANGED <<sourceConfigMaps, namespaces>>
    /\ IF ~syncer.exists THEN SyncerReturns("notFound", FALSE)
       ELSE IF fault = "get" THEN SyncerReturns("get", TRUE)
       ELSE IF syncer.deletionTimestamp
       THEN IF syncer.finalizer THEN handleDeletion(fault, failing)
            ELSE SyncerReturns("handleDeletion", FALSE)
       ELSE IF ~syncer.finalizer /\ fault = "update"
       THEN SyncerReturns("addFinalizer", TRUE)
       ELSE IF sourceConfigMaps[syncer.sourceConfigMap] = NoConfigMap
       THEN /\ syncer' = [syncer EXCEPT !.finalizer = TRUE]
            /\ syncResult' = SyncResult("sourceNotFound", FALSE,
                                        syncResult.deleteErrors)
            /\ UNCHANGED <<targetConfigMaps, created>>
       ELSE syncToTargets(fault, failing)

SyncerFaults == {"none", "get", "update", "status"}

SyncerReconcileCall ==
    /\ \E fault \in SyncerFaults, failing \in SUBSET Namespaces :
          /\ Disturb(fault # "none" \/ failing # {})
          /\ SyncerReconcile(fault, failing)
    /\ UNCHANGED <<applicationVars, backupVars, webappVars, postgresVars>>

\* kubectl edit of spec.targetNamespaces or spec.sourceConfigMap.
UserEditsTargets(list) ==
    /\ syncer.exists /\ ~syncer.deletionTimestamp
    /\ list # syncer.targetNamespaces
    /\ syncer' = [syncer EXCEPT !.targetNamespaces = list]

UserEditsSource(name) ==
    /\ syncer.exists /\ ~syncer.deletionTimestamp
    /\ name # syncer.sourceConfigMap
    /\ syncer' = [syncer EXCEPT !.sourceConfigMap = name]

\* The source ConfigMap is created, changed or deleted.
SourceChanges(name, content) ==
    /\ content # sourceConfigMaps[name]
    /\ sourceConfigMaps' = [sourceConfigMaps EXCEPT ![name] = content]

\* kubectl delete of the syncer.
UserDeletesSyncer ==
    /\ syncer.exists /\ ~syncer.deletionTimestamp
    /\ syncer' = IF syncer.finalizer
                 THEN [syncer EXCEPT !.deletionTimestamp = TRUE]
                 ELSE [syncer EXCEPT !.exists = FALSE]
    /\ UNCHANGED <<sourceConfigMaps, namespaces, targetConfigMaps, created,
                   syncResult, disturbances>>

SyncerEnvironment ==
    /\ \/ /\ Disturb(TRUE)
          /\ \/ \E list \in TargetLists : UserEditsTargets(list)
             \/ \E name \in SourceNames : UserEditsSource(name)
          /\ UNCHANGED <<sourceConfigMaps, namespaces, targetConfigMaps,
                         created, syncResult>>
       \/ /\ Disturb(TRUE)
          /\ \E name \in SourceNames, content \in Contents \cup {NoConfigMap} :
                SourceChanges(name, content)
          /\ UNCHANGED <<syncer, namespaces, targetConfigMaps, created,
                         syncResult>>
       \/ UserDeletesSyncer
    /\ UNCHANGED <<applicationVars, backupVars, webappVars, postgresVars>>

NextSyncer == SyncerReconcileCall \/ SyncerEnvironment

\* A syncer of README lines 409-427 just applied: the source exists, one or
\* both target namespaces are listed, and a ConfigMap of the source's name
\* may already be in team-a.
InitSyncer ==
    /\ ApplicationIdle /\ BackupIdle /\ WebAppIdle /\ PostgresIdle
    /\ syncer \in { [NoSyncer EXCEPT !.exists = TRUE,
                                     !.targetNamespaces = list] :
                       list \in {<<"team-a">>, <<"team-a", "team-b">>} }
    /\ sourceConfigMaps = [n \in SourceNames |->
                              IF n = "app-config"
                              THEN [data |-> "d1", binaryData |-> "b1"]
                              ELSE NoConfigMap]
    /\ namespaces \in {Namespaces, {"team-a"}}
    /\ targetConfigMaps \in
          { [k \in Namespaces \X SourceNames |->
                IF k = <<"team-a", "app-config">> THEN c ELSE NoConfigMap] :
             c \in {NoConfigMap, [data |-> "d2", binaryData |-> "b2"]} }
    /\ created = {}
    /\ syncResult = SyncResult("none", FALSE, 0)

SpecSyncer == InitSyncer /\ [][NextSyncer]_vars

\* One invocation of the syncer's Reconcile.
SyncerReconcileStep ==
    \E fault \in SyncerFaults, failing \in SUBSET Namespaces :
        SyncerReconcile(fault, failing)

\* C24: handleDeletion removes the finalizer only when, after its Deletes,
\* no target namespace of the spec holds the synced ConfigMap; an invocation
\* in which a Delete fails with an error other than NotFound returns the
\* error and leaves the syncer as it was, finalizer and deletionTimestamp
\* included, so that the next invocation runs handleDeletion again.
C24_FinalizerAfterCleanup ==
    [][(/\ syncer.exists /\ syncer.deletionTimestamp /\ syncer.finalizer
        /\ SyncerReconcileStep)
          => /\ ~syncer'.finalizer
                  => /\ ~syncResult'.err
                     /\ \A ns \in Range(syncer.targetNamespaces) :
                           targetConfigMaps'[<<ns, syncer.sourceConfigMap>>]
                              = NoConfigMap
             /\ syncResult'.deleteErrors > syncResult.deleteErrors
                  => syncResult'.err /\ syncer' = syncer]_vars

\* A cleanup that failed on a Delete was retried and completed.
C24_Witness ==
    /\ ~syncer.exists
    /\ syncResult.op = "handleDeletion"
    /\ syncResult.deleteErrors > 0
    /\ created # {}
    /\ \A k \in created : targetConfigMaps[k] = NoConfigMap

\* C25: after a Reconcile that read the source and returned without error,
\* every namespace of status.syncedNamespaces holds a ConfigMap of the
\* source's name whose Data and BinaryData are those of the source read.
C25_SyncedCopiesEqualSource ==
    [][(/\ SyncerReconcileStep
        /\ syncResult'.op = "sync"
        /\ ~syncResult'.err)
          => \A i \in DOMAIN syncer'.syncedNamespaces :
                LET copy == targetConfigMaps'[<<syncer'.syncedNamespaces[i],
                                                syncer.sourceConfigMap>>]
                    source == sourceConfigMaps[syncer.sourceConfigMap]
                IN  /\ copy # NoConfigMap
                    /\ copy.data = source.data
                    /\ copy.binaryData = source.binaryData]_vars

\* One copy was created and one existed with other content before.
C25_Witness ==
    /\ syncResult.op = "sync" /\ ~syncResult.err
    /\ syncer.syncedNamespaces = <<"team-a", "team-b">>
    /\ <<"team-a", syncer.sourceConfigMap>> \notin created
    /\ <<"team-b", syncer.sourceConfigMap>> \in created
    /\ \A ns \in Namespaces :
          targetConfigMaps[<<ns, syncer.sourceConfigMap>>]
             = sourceConfigMaps[syncer.sourceConfigMap]

\* C26: once the syncer is gone, no ConfigMap that syncToTargets created
\* remains in any namespace.
C26_NoCopyLeftBehind ==
    ~syncer.exists => \A k \in created : targetConfigMaps[k] = NoConfigMap

\* ---------------------------------------------------------- BackupPolicy

\* The clock stops at MaxTime ticks; a tick is one minute of the cron
\* schedule.
MaxTime == 3

\* backuppolicy_controller.go lines 351-354.
DefaultRetentionCount == 7

PVCNames == {"data-0", "data-1"}

Retention(p) ==
    IF p.retentionCount = 0 THEN DefaultRetentionCount ELSE p.retentionCount

\* backuppolicy_controller.go lines 164-178 for the schedule "*/n * * * *":
\* the first multiple of n after status.lastScheduleTime, or after the
\* creation timestamp (0) when there is none.
NextScheduleTime(p) == ((p.lastScheduleTime \div p.schedule) + 1) * p.schedule

\* backuppolicy_controller.go lines 60-65.
Suspended_Never(p) == FALSE

Suspended(p) == p.suspend

\* backuppolicy_controller.go lines 195-213: a Job is named after the PVC and
\* the time and labelled with the policy; `instant` records the scheduled
\* instant it was created for.
BackupJob(v) ==
    [pvc |-> v, timestamp |-> now, instant |-> NextScheduleTime(policy)]

NewBackupJobs == { BackupJob(v) : v \in pvcs }

\* The order in which r.List returns the PVCs.
PVCOrder == <<"data-0", "data-1">>

\* backuppolicy_controller.go lines 107-114 and 269: the index of the first
\* PVC whose r.Create fails, 0 when none does. A Job of the same name makes
\* Create fail with AlreadyExists.
FirstFailedCreate(fault) ==
    LET listed == { i \in DOMAIN PVCOrder : PVCOrder[i] \in pvcs }
        first == CHOOSE i \in listed : \A k \in listed : i <= k
        bad == { i \in listed :
                   \/ \E j \in backupJobs :
                         j.pvc = PVCOrder[i] /\ j.timestamp = now
                   \/ fault = "create" /\ i = first
                   \/ fault = "createLater" /\ i # first }
    IN  IF bad = {} THEN 0 ELSE CHOOSE i \in bad : \A k \in bad : i <= k

\* The Jobs created before the loop returned the error.
CreatedBeforeFailure(fault) ==
    { BackupJob(PVCOrder[i]) :
        i \in { k \in DOMAIN PVCOrder :
                  PVCOrder[k] \in pvcs /\ k < FirstFailedCreate(fault) } }

\* sort.Slice by creation time, newest first (lines 346-349), is not stable:
\* the Jobs at indexes below the retention count are any choice of the
\* newest ones.
KeptChoices(list, n) ==
    { K \in SUBSET list :
        /\ Cardinality(K) = IF Cardinality(list) < n
                            THEN Cardinality(list) ELSE n
        /\ \A k \in K, d \in list \ K : k.timestamp >= d.timestamp }

\* backuppolicy_controller.go lines 356-362: the Jobs deleted before the
\* first Delete that fails; a Delete of a Job that is gone fails too.
DeletedBeforeFailure(doomed, present, fault) ==
    IF fault = "delete" THEN {}
    ELSE { d \in doomed :
             \A m \in doomed \ present : d.timestamp > m.timestamp }

BackupReturns(op, err, requeueAfter) ==
    backupResult' = BackupResult(op, err, requeueAfter, FALSE, FALSE)

\* backuppolicy_controller.go lines 339-365 and 121-134: cleanupOldBackups on
\* the listed Jobs, whose error is only logged, then the status write.
cleanupOldBackups(present, list, fault) ==
    \E kept \in KeptChoices(list, Retention(policy)) :
        LET doomed == list \ kept
            failed == /\ doomed # {}
                      /\ (fault = "delete" \/ ~(doomed \subseteq present))
            deleted == IF failed
                       THEN DeletedBeforeFailure(doomed, present, fault)
                       ELSE doomed
        IN  /\ backupJobs' = present \ deleted
            /\ IF fault = "status"
               THEN /\ policy' = [policy EXCEPT !.finalizer = TRUE]
                    /\ backupResult' =
                          BackupResult("backup", TRUE, 0, TRUE, failed)
               ELSE /\ policy' = [policy EXCEPT !.finalizer = TRUE,
                                                !.lastScheduleTime = now]
                    /\ backupResult' =
                          BackupResult("backup", FALSE,
                             NextScheduleTime(policy') - now, TRUE, failed)

\* backuppolicy_controller.go lines 137-162: the listed Jobs are deleted,
\* errors are logged, and the finalizer is removed.
backupHandleDeletion(list, fault) ==
    /\ IF fault = "list" THEN UNCHANGED backupJobs
       ELSE IF fault = "delete" /\ list \cap backupJobs # {}
       THEN \E j \in list \cap backupJobs :
               backupJobs' = (backupJobs \ list) \cup {j}
       ELSE backupJobs' = backupJobs \ list
    /\ IF fault = "update"
       THEN /\ BackupReturns("handleDeletion", TRUE, 0)
            /\ UNCHANGED policy
       ELSE /\ BackupReturns("handleDeletion", FALSE, 0)
            /\ policy' = [policy EXCEPT !.finalizer = FALSE,
                                        !.exists = FALSE]

\* backuppolicy_controller.go lines 38-135. r.List reads the client's cache,
\* which may or may not hold the Jobs created a moment ago (fresh).
BackupReconcile(fault, fresh) ==
    /\ UNCHANGED <<pvcs, backupJobCache, now>>
    /\ IF ~policy.exists
       THEN BackupReturns("notFound", FALSE, 0)
            /\ UNCHANGED <<policy, backupJobs>>
       ELSE IF fault = "get"
       THEN BackupReturns("get", TRUE, 0) /\ UNCHANGED <<policy, backupJobs>>
       ELSE IF policy.deletionTimestamp
       THEN IF policy.finalizer
            THEN backupHandleDeletion(IF fresh THEN backupJobs
                                      ELSE backupJobCache, fault)
            ELSE BackupReturns("handleDeletion", FALSE, 0)
                 /\ UNCHANGED <<policy, backupJobs>>
       ELSE IF ~policy.finalizer /\ fault = "update"
       THEN BackupReturns("addFinalizer", TRUE, 0)
            /\ UNCHANGED <<policy, backupJobs>>
       ELSE IF Suspended(policy)
       THEN /\ BackupReturns("suspended", FALSE, 0)
            /\ policy' = [policy EXCEPT !.finalizer = TRUE]
            /\ UNCHANGED backupJobs
       ELSE IF policy.schedule = 0
       THEN /\ BackupReturns("invalidSchedule", TRUE, 0)
            /\ policy' = [policy EXCEPT !.finalizer = TRUE]
            /\ UNCHANGED backupJobs
       ELSE IF now < NextScheduleTime(policy)
       THEN /\ BackupReturns("notYet", FALSE, NextScheduleTime(policy) - now)
            /\ policy' = [policy EXCEPT !.finalizer = TRUE]
            /\ UNCHANGED backupJobs
       ELSE IF fault = "list"
       THEN /\ BackupReturns("findPVCs", TRUE, 0)
            /\ policy' = [policy EXCEPT !.finalizer = TRUE]
            /\ UNCHANGED backupJobs
       ELSE IF pvcs = {}
       THEN /\ BackupReturns("noPVCs", FALSE, NextScheduleTime(policy) - now)
            /\ policy' = [policy EXCEPT !.finalizer = TRUE]
            /\ UNCHANGED backupJobs
       ELSE IF FirstFailedCreate(fault) # 0
       THEN /\ BackupReturns("createBackupJob", TRUE, 0)
            /\ policy' = [policy EXCEPT !.finalizer = TRUE]
            /\ backupJobs' = backupJobs \cup CreatedBeforeFailure(fault)
       ELSE cleanupOldBackups(backupJobs \cup NewBackupJobs,
                              IF fresh THEN backupJobs \cup NewBackupJobs
                              ELSE backupJobCache, fault)

BackupFaults ==
    {"none", "get", "update", "list", "create", "createLater", "delete",
     "status"}

BackupReconcileStep ==
    \E fault \in BackupFaults, fresh \in BOOLEAN : BackupReconcile(fault, fresh)

BackupReconcileCall ==
    /\ \E fault \in BackupFaults, fresh \in BOOLEAN :
          /\ Disturb(fault # "none")
          /\ BackupReconcile(fault, fresh)
    /\ UNCHANGED <<applicationVars, syncerVars, webappVars, postgresVars>>

\* The informer's cache of Jobs catches up with the API server.
BackupCacheSync ==
    /\ backupJobCache # backupJobs
    /\ backupJobCache' = backupJobs
    /\ UNCHANGED <<policy, pvcs, backupJobs, now, backupResult, disturbances>>

Tick ==
    /\ now < MaxTime
    /\ now' = now + 1
    /\ UNCHANGED <<policy, pvcs, backupJobs, backupJobCache, backupResult,
                   disturbances>>

\* kubectl patch of spec.suspend.
UserSuspends(b) ==
    /\ policy.exists /\ ~policy.deletionTimestamp
    /\ b # policy.suspend
    /\ Disturb(TRUE)
    /\ policy' = [policy EXCEPT !.suspend = b]
    /\ UNCHANGED <<pvcs, backupJobs, backupJobCache, now, backupResult>>

\* kubectl delete of the policy.
UserDeletesPolicy ==
    /\ policy.exists /\ ~policy.deletionTimestamp
    /\ policy' = IF policy.finalizer
                 THEN [policy EXCEPT !.deletionTimestamp = TRUE]
                 ELSE [policy EXCEPT !.exists = FALSE]
    /\ UNCHANGED <<pvcs, backupJobs, backupJobCache, now, backupResult,
                   disturbances>>

BackupEnvironment ==
    /\ \/ BackupCacheSync
       \/ Tick
       \/ \E b \in BOOLEAN : UserSuspends(b)
       \/ UserDeletesPolicy
    /\ UNCHANGED <<applicationVars, syncerVars, webappVars, postgresVars>>

NextBackup == BackupReconcileCall \/ BackupEnvironment

\* A policy just applied, with a schedule of every minute, every second
\* minute or an invalid one, and zero to two matching PVCs.
InitBackup ==
    /\ ApplicationIdle /\ SyncerIdle /\ WebAppIdle /\ PostgresIdle
    /\ policy \in { [NoPolicy EXCEPT !.exists = TRUE, !.schedule = s,
                                     !.retentionCount = r] :
                       s \in 0..2, r \in 0..2 }
    /\ pvcs \in {{}, {"data-0"}, PVCNames}
    /\ backupJobs = {}
    /\ backupJobCache = {}
    /\ now = 0
    /\ backupResult = BackupResult("none", FALSE, 0, FALSE, FALSE)

SpecBackup == InitBackup /\ [][NextBackup]_vars

C28_RetentionHolds ==
    [][(/\ BackupReconcileStep
        /\ backupResult'.ranBackup
        /\ ~backupResult'.cleanupErr)
          => /\ Cardinality(backupJobs') <= Retention(policy)
             /\ \A k \in backupJobs' :
                  \A d \in (backupJobs \cup NewBackupJobs) \ backupJobs' :
                      k.timestamp >= d.timestamp]_vars

\* ---------------------------------------------------------------- WebApp

\* src/unnamed/part_001 lines 133-141.
DefaultReplicas == 1

DefaultPort == 80

Images == {"nginx:1.25", "nginx:1.26"}

\* WebApp specs: replicas and port set or left at their zero values.
WebAppSpecs ==
    { [NoWebApp EXCEPT !.exists = TRUE, !.replicas = r, !.image = i,
                       !.port = p] :
         r \in {0, 2}, i \in Images, p \in {0, 8080} }

\* Deployments and Services as kubectl edits can leave them.
Deployments ==
    [replicas : {1, 2}, image : Images, containerPort : {80, 8080},
     availableReplicas : {0}]

Services == { [port |-> p, targetPort |-> p] : p \in {80, 8080} }

\* src/unnamed/part_001 lines 132-180.
createDeployment(w) ==
    [replicas |-> IF w.replicas = 0 THEN DefaultReplicas ELSE w.replicas,
     image |-> w.image,
     containerPort |-> IF w.port = 0 THEN DefaultPort ELSE w.port,
     availableReplicas |-> 0]

\* src/unnamed/part_001 lines 182-211.
createService(w) ==
    [port |-> IF w.port = 0 THEN DefaultPort ELSE w.port,
     targetPort |-> IF w.port = 0 THEN DefaultPort ELSE w.port]

\* src/unnamed/part_001 lines 90-92: replicas, image and ports compared.
DeploymentDiffers_IgnoresImage(d, desired) ==
    \/ d.replicas # desired.replicas
    \/ d.containerPort # desired.containerPort

DeploymentDiffers(d, desired) ==
    \/ d.replicas # desired.replicas
    \/ d.image # desired.image
    \/ d.containerPort # desired.containerPort

\* src/unnamed/part_001 line 124: the Service's ports compared.
ServiceDiffers_Always(s, desired) == TRUE

ServiceDiffers(s, desired) ==
    s.port # desired.port \/ s.targetPort # desired.targetPort

\* src/unnamed/part_001 lines 70-102: the call issued, whether it failed,
\* and the Deployment afterwards.
reconcileDeployment(fault) ==
    LET desired == createDeployment(webapp)
        call == IF deployment = NoDeployment THEN "CreateDeployment"
                ELSE IF DeploymentDiffers(deployment, desired)
                THEN "UpdateDeployment"
                ELSE ""
        failed == call # "" /\ fault = "deployment"
    IN  [call |-> call, err |-> failed,
         object |-> IF failed \/ call = "" THEN deployment
                    ELSE IF call = "CreateDeployment" THEN desired
                    ELSE [deployment EXCEPT
                            !.replicas = desired.replicas,
                            !.image = desired.image,
                            !.containerPort = desired.containerPort]]

\* src/unnamed/part_001 lines 104-130.
reconcileService(fault) ==
    LET desired == createService(webapp)
        call == IF service = NoService THEN "CreateService"
                ELSE IF ServiceDiffers(service, desired)
                THEN "UpdateService"
                ELSE ""
        failed == call # "" /\ fault = "service"
    IN  [call |-> call, err |-> failed,
         object |-> IF failed \/ call = "" THEN service
                    ELSE IF call = "CreateService" THEN desired
                    ELSE [service EXCEPT !.port = desired.port,
                                         !.targetPort = desired.targetPort]]

\* src/unnamed/part_001 lines 213-241: the status written from the
\* Deployment d.
updateStatus(d) ==
    [webapp EXCEPT
       !.availableReplicas = d.availableReplicas,
       !.serviceURL = webapp.port,
       !.ready = IF d.availableReplicas = d.replicas
                 THEN "AllReplicasReady" ELSE "ReplicasNotReady"]

\* The previous Reconcile succeeded and nothing was edited since.
Second == ~edited /\ webappResult.op = "reconciled" /\ ~webappResult.err

\* src/unnamed/part_001 lines 35-68.
WebAppReconcile(fault) ==
    /\ edited' = FALSE
    /\ IF ~webapp.exists
       THEN /\ webappResult' = WebAppResult("notFound", FALSE, {}, FALSE)
            /\ UNCHANGED <<webapp, deployment, service>>
       ELSE IF fault = "get"
       THEN /\ webappResult' = WebAppResult("get", TRUE, {}, FALSE)
            /\ UNCHANGED <<webapp, deployment, service>>
       ELSE
       LET d == reconcileDeployment(fault)
           s == reconcileService(fault)
       IN  IF d.err
           THEN /\ webappResult' =
                      WebAppResult("reconcileDeployment", TRUE,
                                   {d.call}, Second)
                /\ webapp' = [webapp EXCEPT !.ready = "DeploymentFailed"]
                /\ UNCHANGED <<deployment, service>>
           ELSE IF s.err
           THEN /\ webappResult' =
                      WebAppResult("reconcileService", TRUE,
                                   {d.call, s.call} \ {""}, Second)
                /\ webapp' = [webapp EXCEPT !.ready = "ServiceFailed"]
                /\ deployment' = d.object
                /\ UNCHANGED service
           ELSE /\ deployment' = d.object
                /\ service' = s.object
                /\ IF fault \in {"getDeployment", "status"}
                   THEN /\ webappResult' =
                              WebAppResult("updateStatus", TRUE,
                                           {d.call, s.call} \ {""}, Second)
                        /\ UNCHANGED webapp
                   ELSE /\ webappResult' =
                              WebAppResult("reconciled", FALSE,
                                           {d.call, s.call} \ {""}, Second)
                        /\ webapp' = updateStatus(d.object)

WebAppFaults ==
    {"none", "get", "deployment", "service", "getDeployment", "status"}

WebAppReconcileStep == \E fault \in WebAppFaults : WebAppReconcile(fault)

WebAppReconcileCall ==
    /\ \E fault \in WebAppFaults :
          /\ Disturb(fault # "none")
          /\ WebAppReconcile(fault)
    /\ UNCHANGED <<applicationVars, syncerVars, backupVars, postgresVars>>

\* kubectl edit of the WebApp's spec.
UserEditsWebApp(w) ==
    /\ webapp.exists
    /\ <<w.replicas, w.image, w.port>>
          # <<webapp.replicas, webapp.image, webapp.port>>
    /\ webapp' = [webapp EXCEPT !.replicas = w.replicas, !.image = w.image,
                                !.port = w.port]
    /\ UNCHANGED <<deployment, service>>

\* kubectl scale, set image, edit or delete on the Deployment.
UserEditsDeployment(d) ==
    /\ deployment # NoDeployment
    /\ d # [deployment EXCEPT !.availableReplicas = 0]
    /\ deployment' = d
    /\ UNCHANGED <<webapp, service>>

\* kubectl edit or delete on the Service.
UserEditsService(s) ==
    /\ service # NoService
    /\ s # service
    /\ service' = s
    /\ UNCHANGED <<webapp, deployment>>

\* The Deployment's pods become available.
DeploymentProgresses ==
    /\ deployment # NoDeployment
    /\ deployment.availableReplicas # deployment.replicas
    /\ deployment' = [deployment EXCEPT
                      !.availableReplicas = deployment.replicas]
    /\ UNCHANGED <<webapp, service, webappResult, edited, disturbances>>

WebAppEnvironment ==
    /\ \/ /\ Disturb(TRUE)
          /\ \/ \E w \in WebAppSpecs : UserEditsWebApp(w)
             \/ \E d \in Deployments \cup {NoDeployment} :
                   UserEditsDeployment(d)
             \/ \E s \in Services \cup {NoService} : UserEditsService(s)
          /\ edited' = TRUE
          /\ UNCHANGED webappResult
       \/ DeploymentProgresses
    /\ UNCHANGED <<applicationVars, syncerVars, backupVars, postgresVars>>

NextWebApp == WebAppReconcileCall \/ WebAppEnvironment

\* A WebApp just applied; a Deployment and a Service of its name may exist
\* already, in any state.
InitWebApp ==
    /\ ApplicationIdle /\ SyncerIdle /\ BackupIdle /\ PostgresIdle
    /\ webapp \in WebAppSpecs
    /\ deployment \in Deployments \cup {NoDeployment}
    /\ service \in Services \cup {NoService}
    /\ webappResult = WebAppResult("none", FALSE, {}, FALSE)
    /\ edited = FALSE

SpecWebApp == InitWebApp /\ [][NextWebApp]_vars

C30_UpdateAppliesSpec ==
    [][(/\ webapp.exists
        /\ deployment # NoDeployment /\ service # NoService
        /\ WebAppReconcileStep
        /\ webappResult'.op = "reconciled" /\ ~webappResult'.err)
          => /\ deployment'.replicas =
                   (IF webapp.replicas = 0 THEN 1 ELSE webapp.replicas)
             /\ deployment'.image = webapp.image
             /\ deployment'.containerPort =
                   (IF webapp.port = 0 THEN 80 ELSE webapp.port)
             /\ service'.port =
                   (IF webapp.port = 0 THEN 80 ELSE webapp.port)]_vars

\* Both objects existed in another state and were updated to the defaults.
C30_Witness ==
    /\ webappResult.op = "reconciled" /\ ~webappResult.err
    /\ webappResult.calls = {"UpdateDeployment", "UpdateService"}
    /\ webapp.replicas = 0 /\ webapp.port = 0
    /\ deployment.replicas = 1 /\ deployment.containerPort = 80
    /\ deployment.image = webapp.image
    /\ service.port = 80

\* The weights of the configured canary steps, in list order.
StepWeights == [i \in DOMAIN strategy.canary |-> strategy.canary[i].weight]

\* C35: an upgrade cycle in progress ends: from Migrating, Deploying,
\* HealthChecking, Canary, Promoting or RollingBack the phase becomes Healthy
\* or Failed, unless the user pauses the application or withdraws the
\* target version.
C35_CycleEnds ==
    (phase \in {"Migrating", "Deploying", "HealthChecking", "Canary",
                "Promoting", "RollingBack"})
       ~> (phase \in {"Healthy", "Failed"} \/ paused
           \/ specVersion = currentVersion)

\* C36: in a canary rollout over a well-formed step list the weights applied
\* so far are those of the first steps, each once and in list order, and at
\* the promotion every step has been applied; stated for the runs in which
\* no call has failed.
C36_EveryStepOnceInOrder ==
    (/\ disturbances = 0
     /\ strategy.canary # NoCanary
     /\ WellFormed(strategy.canary)
     /\ phase \in {"Canary", "Promoting"})
       => /\ IsPrefix(weightLog, StepWeights)
          /\ phase = "Promoting" => weightLog = StepWeights

\* C33: handleDeletion of a BackupPolicy removes the finalizer only when no
\* Job of the policy is left; a failed List or Delete keeps the finalizer
\* and returns an error.
C33_FinalizerAfterJobsDeleted ==
    [][(/\ policy.exists /\ policy.deletionTimestamp /\ policy.finalizer
        /\ BackupReconcileStep)
          => /\ ~policy'.finalizer => backupJobs' = {}
             /\ backupJobs' # {} => backupResult'.err]_vars

\* C34: a due Reconcile that finds no matching PVC returns a strictly
\* positive RequeueAfter.
C34_NoPVCRequeues ==
    [][(BackupReconcileStep /\ backupResult'.op = "noPVCs")
          => /\ ~backupResult'.err
             /\ backupResult'.requeueAfter > 0]_vars

\* C37: no two backup Jobs exist for the same PVC and the same scheduled
\* instant.
C37_OneJobPerInstant ==
    \A j, k \in backupJobs :
        (j.pvc = k.pvc /\ j.instant = k.instant) => j = k

\* C39: a Reconcile that does not find the source ConfigMap changes no
\* target ConfigMap, returns no error, and leaves the persisted status with
\* the condition Ready=False, reason SourceNotFound.
C39_SourceNotFoundReported ==
    [][(SyncerReconcileStep /\ syncResult'.op = "sourceNotFound")
          => /\ targetConfigMaps' = targetConfigMaps
             /\ ~syncResult'.err
             /\ syncer'.ready = "SourceNotFound"]_vars

\* ---------------------------------------------------------- PostgresUser

\* The passwords generated in one behaviour.
MaxPasswords == 3

\* src/unnamed/part_000 lines 515-521: a random password, different from
\* every password generated before.
generatePassword == generated + 1

\* src/unnamed/part_000 lines 485-506: Status().Update of the object in
\* memory; its error is dropped by every caller.
updateStatus_user(u, ready, fault) ==
    IF fault = "status"
    THEN [user EXCEPT !.finalizer = TRUE]
    ELSE [u EXCEPT !.finalizer = TRUE, !.ready = ready]

UserReturns(op, err) ==
    /\ userResult' = UserResult(op, err, FALSE)
    /\ UNCHANGED <<user, role, secret, generated, rotated, createdRole>>

\* src/unnamed/part_000 lines 291-310: grantPrivileges, the write of the
\* Secret when a password is at hand, and the status Ready=true.
grantAndStore(u, password, rotation, fault) ==
    IF fault = "grant"
    THEN /\ userResult' = UserResult("grantPrivileges", TRUE, rotation)
         /\ user' = updateStatus_user(u, FALSE, "none")
         /\ UNCHANGED secret
    ELSE IF password # NoPassword /\ fault = "secret"
    THEN /\ userResult' = UserResult("createOrUpdateSecret", TRUE, rotation)
         /\ user' = [user EXCEPT !.finalizer = TRUE]
         /\ UNCHANGED secret
    ELSE /\ userResult' = UserResult("reconciled", FALSE, rotation)
         /\ user' = updateStatus_user(u, TRUE, fault)
         /\ secret' = IF password # NoPassword THEN password ELSE secret

\* src/unnamed/part_000 lines 313-340: the connection and the DROP USER may
\* fail; the finalizer is removed in either case.
handleDeletion_user(fault) ==
    /\ UNCHANGED <<secret, generated, rotated, createdRole>>
    /\ role' = IF fault \in {"connect", "drop"} THEN role ELSE NoPassword
    /\ IF fault = "update"
       THEN /\ userResult' = UserResult("handleDeletion", TRUE, FALSE)
            /\ UNCHANGED user
       ELSE /\ userResult' = UserResult("handleDeletion", FALSE, FALSE)
            /\ user' = [user EXCEPT !.finalizer = FALSE, !.exists = FALSE]

\* src/unnamed/part_000 lines 229-311.
UserReconcile(fault) ==
    IF ~user.exists THEN UserReturns("notFound", FALSE)
    ELSE IF fault = "get" THEN UserReturns("get", TRUE)
    ELSE IF user.deletionTimestamp
    THEN IF user.finalizer THEN handleDeletion_user(fault)
         ELSE UserReturns("handleDeletion", FALSE)
    ELSE IF ~user.finalizer /\ fault = "update"
    THEN UserReturns("addFinalizer", TRUE)
    ELSE IF fault = "connect"
    THEN /\ userResult' = UserResult("connectToDatabase", TRUE, FALSE)
         /\ user' = updateStatus_user(user, FALSE, "none")
         /\ UNCHANGED <<role, secret, generated, rotated, createdRole>>
    ELSE IF fault = "userExists"
    THEN /\ userResult' = UserResult("userExists", TRUE, FALSE)
         /\ user' = [user EXCEPT !.finalizer = TRUE]
         /\ UNCHANGED <<role, secret, generated, rotated, createdRole>>
    ELSE IF role = NoPassword \/ user.rotatePassword
    THEN \* createOrUpdateUser, lines 383-410
         /\ generated < MaxPasswords
         /\ generated' = generated + 1
         /\ IF fault = "exec"
            THEN /\ userResult' = UserResult("createOrUpdateUser", TRUE, TRUE)
                 /\ user' = updateStatus_user(user, FALSE, "none")
                 /\ UNCHANGED <<role, secret, rotated, createdRole>>
            ELSE /\ role' = generatePassword
                 /\ createdRole' = (createdRole \/ role = NoPassword)
                 /\ rotated' = TRUE
                 /\ grantAndStore(
                       [user EXCEPT !.lastPasswordRotation = TRUE],
                       generatePassword, TRUE, fault)
    ELSE \* the password is read from the Secret, lines 280-289
         /\ UNCHANGED <<role, generated, rotated, createdRole>>
         /\ grantAndStore(user,
                          IF fault = "getSecret" THEN NoPassword ELSE secret,
                          FALSE, fault)

UserFaults ==
    {"none", "get", "update", "connect", "userExists", "exec", "getSecret",
     "grant", "secret", "status", "drop"}

UserReconcileStep == \E fault \in UserFaults : UserReconcile(fault)

UserReconcileCall ==
    /\ \E fault \in UserFaults :
          /\ Disturb(fault # "none")
          /\ UserReconcile(fault)
    /\ UNCHANGED <<applicationVars, syncerVars, backupVars, webappVars>>

\* kubectl patch of spec.rotatePassword.
UserEditsRotatePassword(b) ==
    /\ user.exists /\ ~user.deletionTimestamp
    /\ b # user.rotatePassword
    /\ Disturb(TRUE)
    /\ user' = [user EXCEPT !.rotatePassword = b]
    /\ rotated' = FALSE
    /\ UNCHANGED <<role, secret, generated, createdRole, userResult>>

\* kubectl delete of the credentials Secret.
UserDeletesSecret ==
    /\ secret # NoPassword
    /\ Disturb(TRUE)
    /\ secret' = NoPassword
    /\ UNCHANGED <<user, role, generated, rotated, createdRole, userResult>>

\* kubectl delete of the PostgresUser.
UserDeletesUser ==
    /\ user.exists /\ ~user.deletionTimestamp
    /\ user' = IF user.finalizer
               THEN [user EXCEPT !.deletionTimestamp = TRUE]
               ELSE [user EXCEPT !.exists = FALSE]
    /\ UNCHANGED <<role, secret, generated, rotated, createdRole, userResult,
                   disturbances>>

UserEnvironment ==
    /\ \/ \E b \in BOOLEAN : UserEditsRotatePassword(b)
       \/ UserDeletesSecret
       \/ UserDeletesUser
    /\ UNCHANGED <<applicationVars, syncerVars, backupVars, webappVars>>

NextPostgres == UserReconcileCall \/ UserEnvironment

\* A PostgresUser just applied, with rotatePassword set or not; its role
\* does not exist in the database yet.
InitPostgres ==
    /\ ApplicationIdle /\ SyncerIdle /\ BackupIdle /\ WebAppIdle
    /\ user \in { [NoUser EXCEPT !.exists = TRUE, !.rotatePassword = b] :
                     b \in BOOLEAN }
    /\ role = NoPassword
    /\ secret = NoPassword
    /\ generated = 0
    /\ rotated = FALSE
    /\ createdRole = FALSE
    /\ userResult = UserResult("none", FALSE, FALSE)

SpecPostgres == InitPostgres /\ [][NextPostgres]_vars

\* C31: with rotatePassword true and unchanged since a Reconcile that rotated
\* the password and returned success, a Reconcile of a PostgresUser whose
\* role exists generates no password and leaves the role's password as it
\* is.
C31_RotatesOnce ==
    [][(/\ user.exists /\ ~user.deletionTimestamp
        /\ user.rotatePassword /\ rotated
        /\ userResult.op = "reconciled" /\ ~userResult.err
        /\ role # NoPassword
        /\ UserReconcileStep)
          => /\ role' = role
             /\ generated' = generated]_vars

\* C32: no state has the PostgresUser gone while the database role it
\* created exists.
C32_RoleDroppedBeforeGone ==
    ~user.exists => ~(createdRole /\ role # NoPassword)

\* C38: after a Reconcile that returns success and sets Ready=true, the
\* credentials Secret exists and holds the role's password.
C38_ReadyMeansSecretMatches ==
    [][(/\ UserReconcileStep
        /\ userResult'.op = "reconciled" /\ ~userResult'.err
        /\ user'.ready)
          => /\ secret' # NoPassword
             /\ secret' = role']_vars

====
